---- MODULE Spec2Model ----
(***************************************************************************)
(* TerraForge: the spherical Voronoi pipeline of                           *)
(* src/src/delaunay_triangulation.rs (stereographic projection, incremental*)
(* Delaunay triangulation, dual-graph extraction, spherical circumcentres) *)
(* together with normalize_to_sphere of src/src/fibonacci_sphere.rs, and   *)
(* the weather simulation of src/src/weather.rs (specification WeatherSpec)*)
(*                                                                         *)
(* Numbers.  An f64 is modelled as an extended rational <<n, d>> with      *)
(* d >= 0 in lowest terms: d > 0 is the finite value n/d, <<1,0>> is +inf, *)
(* <<-1,0>> is -inf and <<0,0>> is NaN.  Arithmetic on finite values is    *)
(* exact (rounding error is not modelled, and neither is the sign of a     *)
(* zero); arithmetic that involves a zero divisor, an infinity or a NaN    *)
(* follows IEEE 754.  The result of a division by a square root is kept    *)
(* symbolically as [num, rad], the value num / sqrt(rad).                  *)
(***************************************************************************)
EXTENDS Integers, Sequences, FiniteSets, TLC

(***************************************************************************)
(* Bounds of the model.                                                    *)
(***************************************************************************)
MaxPoints == 3

MaxRuns == 2

(***************************************************************************)
(* Extended rational arithmetic (f64).                                     *)
(***************************************************************************)
Abs(n) == IF n < 0 THEN -n ELSE n

Sign(n) == IF n < 0 THEN -1 ELSE IF n > 0 THEN 1 ELSE 0

RECURSIVE GCD(_, _)
GCD(a, b) == IF b = 0 THEN a ELSE GCD(b, a % b)

Norm(n, d) ==
    IF d = 0 THEN <<Sign(n), 0>>
    ELSE LET g == GCD(Abs(n), Abs(d))
         IN  <<Sign(d) * (n \div g), Abs(d) \div g>>

R(n, d) == Norm(n, d)

Zero == <<0, 1>>

One == <<1, 1>>

Two == <<2, 1>>

NaN == <<0, 0>>

PosInf == <<1, 0>>

is_nan(a) == a = NaN

is_finite(a) == a[2] > 0

FNeg(a) == <<-a[1], a[2]>>

FMul(a, b) == Norm(a[1] * b[1], a[2] * b[2])

FDiv(a, b) == Norm(a[1] * b[2], a[2] * b[1])

FAdd(a, b) ==
    IF is_nan(a) \/ is_nan(b) THEN NaN
    ELSE IF a[2] = 0 /\ b[2] = 0 THEN (IF a = b THEN a ELSE NaN)
    ELSE IF a[2] = 0 THEN a
    ELSE IF b[2] = 0 THEN b
    ELSE LET g == GCD(a[2], b[2])
             l == (a[2] \div g) * b[2]
         IN  Norm(a[1] * (l \div a[2]) + b[1] * (l \div b[2]), l)

FSub(a, b) == FAdd(a, FNeg(b))

\* a < b as f64 comparison: false whenever a NaN is involved.
FLt(a, b) ==
    /\ ~is_nan(a)
    /\ ~is_nan(b)
    /\ a # b
    /\ IF a[2] = 0 THEN a[1] < 0
       ELSE IF b[2] = 0 THEN b[1] > 0
       ELSE FSub(a, b)[1] < 0

\* a / sqrt(l2), kept symbolically; sqrt(0) = 0 makes it a division by zero.
DivSqrt(a, l2) ==
    IF ~is_finite(l2) \/ ~is_finite(a) THEN [num |-> FDiv(a, l2), rad |-> One]
    ELSE IF l2 = Zero THEN [num |-> FDiv(a, Zero), rad |-> One]
    ELSE [num |-> a, rad |-> l2]

\* The f64 product of a symbolic quotient by the finite constant k.
ScaleQ(q, k) == [num |-> FMul(q.num, k), rad |-> q.rad]

NegQ(q) == [num |-> FNeg(q.num), rad |-> q.rad]

(***************************************************************************)
(* Projection layer.                                                       *)
(***************************************************************************)
\* fn stereographic_projection(x, y, z) -> Point2
stereographic_projection(x, y, z) ==
    LET scale == FDiv(One, FAdd(One, y))
    IN  <<FMul(x, scale), FMul(FNeg(z), scale)>>

\* fn inverse_stereographic_projection(point) -> (x, y, z)
inverse_stereographic_projection(point) ==
    LET x == point[1]
        z == FNeg(point[2])
        x2z2 == FAdd(FMul(x, x), FMul(z, z))
        scale == FDiv(Two, FAdd(x2z2, One))
        y == FDiv(FSub(x2z2, One), FAdd(x2z2, One))
    IN  <<FMul(x, scale), y, FMul(z, scale)>>

\* fn calculate_spherical_circumcenter(a, b, c) -> (x, y, z)
calculate_spherical_circumcenter(a, b, c) ==
    LET normal == <<
            FSub(FMul(FSub(b[2], a[2]), FSub(c[3], a[3])),
                 FMul(FSub(b[3], a[3]), FSub(c[2], a[2]))),
            FSub(FMul(FSub(b[3], a[3]), FSub(c[1], a[1])),
                 FMul(FSub(b[1], a[1]), FSub(c[3], a[3]))),
            FSub(FMul(FSub(b[1], a[1]), FSub(c[2], a[2])),
                 FMul(FSub(b[2], a[2]), FSub(c[1], a[1]))) >>
        length2 == FAdd(FAdd(FMul(normal[1], normal[1]),
                             FMul(normal[2], normal[2])),
                        FMul(normal[3], normal[3]))
    IN  <<DivSqrt(normal[1], length2),
          DivSqrt(normal[2], length2),
          DivSqrt(normal[3], length2)>>

\* fn normalize_to_sphere(point) -> (x, y, z)
normalize_to_sphere(point) ==
    LET magnitude2 == FAdd(FAdd(FMul(point[1], point[1]),
                                FMul(point[2], point[2])),
                           FMul(point[3], point[3]))
    IN  <<DivSqrt(point[1], magnitude2),
          DivSqrt(point[2], magnitude2),
          DivSqrt(point[3], magnitude2)>>

(***************************************************************************)
(* Triangulation engine: DelaunayTriangulation<Point2<f64>> of the spade   *)
(* crate.  A triangulation is a sequence V of vertex positions (the handle *)
(* of a vertex is its index) and a set F of faces, each a set of three     *)
(* handles.  Insertion is incremental: the faces whose circumcircle        *)
(* strictly contains the new point are removed together with the outer     *)
(* half-planes of the hull edges the point lies beyond, and the cavity is  *)
(* re-triangulated as a fan around the new vertex; a point exactly on a    *)
(* circumcircle leaves the face alone.                                     *)
(***************************************************************************)
\* Sign of the cross product (b - a) x (c - a): 1 is counter-clockwise.
Orient(a, b, c) ==
    Sign(FSub(FMul(FSub(b[1], a[1]), FSub(c[2], a[2])),
              FMul(FSub(b[2], a[2]), FSub(c[1], a[1])))[1])

LexLt(p, q) == FLt(p[1], q[1]) \/ (p[1] = q[1] /\ FLt(p[2], q[2]))

\* p lies on the open segment between a and b.
StrictlyBetween(a, b, p) ==
    /\ Orient(a, b, p) = 0
    /\ \/ LexLt(a, p) /\ LexLt(p, b)
       \/ LexLt(b, p) /\ LexLt(p, a)

\* The three handles of face f in counter-clockwise order, lowest first.
FaceVertices(V, f) ==
    LET i == CHOOSE h \in f : \A g \in f : h <= g
        j == CHOOSE h \in f \ {i} : \A g \in f \ {i} : h <= g
        k == CHOOSE h \in f \ {i, j} : TRUE
    IN  IF Orient(V[i], V[j], V[k]) > 0 THEN <<i, j, k>> ELSE <<i, k, j>>

\* Sign of the in-circle determinant of the counter-clockwise triangle a b c:
\* 1 when p is strictly inside its circumcircle, 0 when p is on it.
InCircleSign(a, b, c, p) ==
    LET ax == FSub(a[1], p[1])
        ay == FSub(a[2], p[2])
        bx == FSub(b[1], p[1])
        by == FSub(b[2], p[2])
        cx == FSub(c[1], p[1])
        cy == FSub(c[2], p[2])
        a2 == FAdd(FMul(ax, ax), FMul(ay, ay))
        b2 == FAdd(FMul(bx, bx), FMul(by, by))
        c2 == FAdd(FMul(cx, cx), FMul(cy, cy))
        det == FAdd(FAdd(FMul(a2, FSub(FMul(bx, cy), FMul(by, cx))),
                         FMul(b2, FSub(FMul(cx, ay), FMul(cy, ax)))),
                    FMul(c2, FSub(FMul(ax, by), FMul(ay, bx))))
    IN  Sign(det[1])

InCircumcircle(V, f, p) ==
    LET t == FaceVertices(V, f)
    IN  InCircleSign(V[t[1]], V[t[2]], V[t[3]], p) > 0

EdgesOf(F) ==
    {e \in SUBSET (UNION F) : Cardinality(e) = 2 /\ \E f \in F : e \subseteq f}

IncidentFaces(F, e) == {f \in F : e \subseteq f}

\* The edges of a triangulation without faces: consecutive vertices of the line.
ChainEdges(V) ==
    {e \in {{a, b} : a, b \in 1..Len(V)} :
        /\ Cardinality(e) = 2
        /\ LET a == CHOOSE h \in e : TRUE
               b == CHOOSE h \in e \ {a} : TRUE
           IN  \A c \in 1..Len(V) : ~StrictlyBetween(V[a], V[b], V[c])}

AllCollinear(V) ==
    \A a, b, c \in 1..Len(V) : Orient(V[a], V[b], V[c]) = 0

\* p lies in the outer side of hull edge e: strictly beyond its line, or on
\* the open edge itself.
BeyondHullEdge(V, F, e, p) ==
    LET f == CHOOSE g \in IncidentFaces(F, e) : TRUE
        c == CHOOSE h \in f \ e : TRUE
        a == CHOOSE h \in e : TRUE
        b == CHOOSE h \in e \ {a} : TRUE
    IN  \/ Orient(V[a], V[b], p) = -Orient(V[a], V[b], V[c])
        \/ StrictlyBetween(V[a], V[b], p)

\* The faces after the vertex p (not yet a vertex) has been added to V, F.
FacesAfterInsert(V, F, p) ==
    LET h == Len(V) + 1
        W == Append(V, p)
    IN  IF F = {}
        THEN IF AllCollinear(W) THEN {}
             ELSE {e \cup {h} : e \in ChainEdges(V)}
        ELSE LET bad == {f \in F : InCircumcircle(V, f, p)}
                 badSides(e) ==
                     Cardinality(IncidentFaces(F, e) \cap bad)
                     + (IF Cardinality(IncidentFaces(F, e)) = 1
                           /\ BeyondHullEdge(V, F, e, p)
                        THEN 1 ELSE 0)
                 boundary == {e \in EdgesOf(F) : badSides(e) = 1}
             IN  (F \ bad) \cup {e \cup {h} : e \in boundary}

is_finite_point(p) == is_finite(p[1]) /\ is_finite(p[2])

\* DelaunayTriangulation::insert: Err for a coordinate that is not finite, the
\* existing vertex for a position already present, a new vertex otherwise.
insert(V, F, p) ==
    IF ~is_finite_point(p) THEN [ok |-> FALSE, V |-> V, F |-> F]
    ELSE IF \E h \in 1..Len(V) : V[h] = p THEN [ok |-> TRUE, V |-> V, F |-> F]
    ELSE [ok |-> TRUE, V |-> Append(V, p), F |-> FacesAfterInsert(V, F, p)]

(***************************************************************************)
(* Dual-graph extraction: print_voronoi_edges.                             *)
(***************************************************************************)
EdgeLo(e) == CHOOSE a \in e : \A b \in e : a <= b

EdgeHi(e) == CHOOSE a \in e : \A b \in e : b <= a

EdgeBefore(e, g) ==
    \/ EdgeLo(e) < EdgeLo(g)
    \/ EdgeLo(e) = EdgeLo(g) /\ EdgeHi(e) <= EdgeHi(g)

RECURSIVE SortEdges(_)
SortEdges(S) ==
    IF S = {} THEN <<>>
    ELSE LET m == CHOOSE e \in S : \A g \in S : EdgeBefore(e, g)
         IN  <<m>> \o SortEdges(S \ {m})

\* triangulation.undirected_voronoi_edges(): every undirected edge of the
\* triangulation, once, in the fixed order of the edge handles.
undirected_voronoi_edges(V, F) ==
    SortEdges(IF F = {} THEN ChainEdges(V) ELSE EdgesOf(F))

\* voronoi_edge.vertices(): the face to the left of the edge directed from its
\* lower to its higher handle, then the face to its right; Outer where the
\* triangulation has no face on that side.
VoronoiVertexOn(V, F, e, side) ==
    LET a == EdgeLo(e)
        b == EdgeHi(e)
        fs == {f \in IncidentFaces(F, e) :
                 \E c \in f \ e : Orient(V[a], V[b], V[c]) = side}
    IN  IF fs = {} THEN [tag |-> "Outer", face |-> {}]
        ELSE [tag |-> "Inner", face |-> CHOOSE f \in fs : TRUE]

vertices(V, F, e) == <<VoronoiVertexOn(V, F, e, 1), VoronoiVertexOn(V, F, e, -1)>>

Thousand == <<1000, 1>>

\* The spherical circumcentre of a face: its three corners, inverse-projected,
\* handed to calculate_spherical_circumcenter in the order of face.vertices().
FaceCircumcenter(V, f) ==
    LET t == FaceVertices(V, f)
        c == [i \in 1..3 |-> inverse_stereographic_projection(V[t[i]])]
    IN  calculate_spherical_circumcenter(c[1], c[2], c[3])

\* (p.0 * 1000.0, p.2 * 1000.0, -p.1 * 1000.0)
Unreal(p) ==
    <<ScaleQ(p[1], Thousand), ScaleQ(p[3], Thousand), ScaleQ(NegQ(p[2]), Thousand)>>

\* VoronoiLines computing both endpoints from the first face.
VoronoiLines_SameFace(V, F, e) ==
    LET vs == vertices(V, F, e)
    IN  IF vs[1].tag = "Inner" /\ vs[2].tag = "Inner"
        THEN <<[edge |-> e,
                from |-> Unreal(FaceCircumcenter(V, vs[1].face)),
                to   |-> Unreal(FaceCircumcenter(V, vs[1].face))]>>
        ELSE <<>>

\* VoronoiLines with the catch-all arm emitting a line for an edge that has a
\* face on one side only.
VoronoiLines_WithRays(V, F, e) ==
    LET vs == vertices(V, F, e)
        inner == {i \in 1..2 : vs[i].tag = "Inner"}
    IN  IF inner = {} THEN <<>>
        ELSE LET a == CHOOSE i \in inner : \A j \in inner : i <= j
                 b == CHOOSE i \in inner : \A j \in inner : j <= i
             IN  <<[edge |-> e,
                    from |-> Unreal(FaceCircumcenter(V, vs[a].face)),
                    to   |-> Unreal(FaceCircumcenter(V, vs[b].face))]>>

\* The body of the loop for one Voronoi edge: the lines it writes.  A line is
\* recorded by the arguments of its writeln! and the edge it is dual to.
VoronoiLines(V, F, e) ==
    LET vs == vertices(V, F, e)
    IN  IF vs[1].tag = "Inner" /\ vs[2].tag = "Inner"
        THEN <<[edge |-> e,
                from |-> Unreal(FaceCircumcenter(V, vs[1].face)),
                to   |-> Unreal(FaceCircumcenter(V, vs[2].face))]>>
        ELSE <<>>

(***************************************************************************)
(* The inputs: points of the unit sphere with rational coordinates (the    *)
(* points whose projections are (0,0), (1,0), (0,1), (1,1), (2,0), (1,2)   *)
(* and (-1,-1)), and the projection pole (0,-1,0).                         *)
(***************************************************************************)
SamplePoints ==
    { <<R(0, 1), R(1, 1), R(0, 1)>>,
      <<R(1, 1), R(0, 1), R(0, 1)>>,
      <<R(0, 1), R(0, 1), R(-1, 1)>>,
      <<R(2, 3), R(-1, 3), R(-2, 3)>>,
      <<R(4, 5), R(-3, 5), R(0, 1)>>,
      <<R(1, 3), R(-2, 3), R(-2, 3)>>,
      <<R(-2, 3), R(-1, 3), R(2, 3)>>,
      <<R(0, 1), R(-1, 1), R(0, 1)>> }

RECURSIVE SeqsUpTo(_, _)
SeqsUpTo(S, n) ==
    IF n = 0 THEN {<<>>}
    ELSE LET shorter == SeqsUpTo(S, n - 1)
         IN  shorter \cup {Append(q, x) : q \in shorter, x \in S}

\* DelaunayTriangulation::<Point2<f64>>::new()
NewTriangulation == [V |-> <<>>, F |-> {}]

(***************************************************************************)
(* State.                                                                  *)
(*   points            the argument of create_spherical_voronoi            *)
(*   projected_points  its local of that name                              *)
(*   triangulation     its local of that name: vertices V, faces F         *)
(*   idx               the position of the insertion loop                  *)
(*   pc                where the program is                                *)
(*   file              the lines of voronoi_edges.txt                      *)
(*   pending           the Voronoi edges the print loop has yet to visit   *)
(*   runs              calls of print_voronoi_edges so far                 *)
(*   outputs           the file as it was at each Ok(()) return            *)
(*   conditions        the Vec<WeatherCondition> of src/src/weather.rs     *)
(*   calls             calls of the weather functions so far               *)
(***************************************************************************)
VARIABLES points, projected_points, triangulation, idx, pc, file, pending,
          runs, outputs, conditions, calls

vars == <<points, projected_points, triangulation, idx, pc, file, pending,
          runs, outputs, conditions, calls>>

Init ==
    /\ points \in SeqsUpTo(SamplePoints, MaxPoints)
    /\ projected_points = <<>>
    /\ triangulation = NewTriangulation
    /\ idx = 1
    /\ pc = "start"
    /\ file = <<>>
    /\ pending = <<>>
    /\ runs = 0
    /\ outputs = <<>>
    /\ conditions = <<>>
    /\ calls = 0

\* The stitched point placed off the origin.
south_pole_OffOrigin == <<Zero, One>>

\* let south_pole = Point2::new(0.0, 0.0);
south_pole == <<Zero, Zero>>

\* create_spherical_voronoi, lines 89-95: project every point, new triangulation.
Project ==
    /\ pc = "start"
    /\ projected_points' =
         [i \in 1..Len(points) |->
            stereographic_projection(points[i][1], points[i][2], points[i][3])]
    /\ triangulation' = NewTriangulation
    /\ idx' = 1
    /\ pc' = IF Len(points) = 0 THEN "stitch" ELSE "inserting"
    /\ UNCHANGED <<conditions, calls, points, file, pending, runs, outputs>>

\* One iteration of the insertion loop, lines 96-98.  expect() panics on Err:
\* the function unwinds, its triangulation is dropped and nothing is returned.
InsertPoint ==
    /\ pc = "inserting"
    /\ LET r == insert(triangulation.V, triangulation.F, projected_points[idx])
       IN  IF r.ok
           THEN /\ triangulation' = [V |-> r.V, F |-> r.F]
                /\ idx' = idx + 1
                /\ pc' = IF idx = Len(projected_points) THEN "stitch" ELSE "inserting"
           ELSE /\ triangulation' = NewTriangulation
                /\ idx' = idx
                /\ pc' = "panicked"
    /\ UNCHANGED <<conditions, calls, points, projected_points, file, pending, runs, outputs>>

\* StitchPole adding the vertex without re-triangulating around it.
StitchPole_VertexOnly ==
    /\ pc = "stitch"
    /\ triangulation' =
         [V |-> IF south_pole \in {triangulation.V[h] : h \in 1..Len(triangulation.V)}
                THEN triangulation.V ELSE Append(triangulation.V, south_pole),
          F |-> triangulation.F]
    /\ pc' = "returned"
    /\ UNCHANGED <<conditions, calls, points, projected_points, idx, file, pending, runs, outputs>>

\* Lines 100-104: insert the south pole and return the triangulation.
StitchPole ==
    /\ pc = "stitch"
    /\ LET r == insert(triangulation.V, triangulation.F, south_pole)
       IN  IF r.ok
           THEN /\ triangulation' = [V |-> r.V, F |-> r.F]
                /\ pc' = "returned"
           ELSE /\ triangulation' = NewTriangulation
                /\ pc' = "panicked"
    /\ UNCHANGED <<conditions, calls, points, projected_points, idx, file, pending, runs, outputs>>

\* PrintCreate opening the file for append instead of truncating it.
PrintCreate_Append ==
    /\ pc \in {"returned", "printed", "io_error"}
    /\ runs < MaxRuns
    /\ runs' = runs + 1
    /\ file' = file
    /\ pending' = undirected_voronoi_edges(triangulation.V, triangulation.F)
    /\ pc' = "printing"
    /\ UNCHANGED <<conditions, calls, points, projected_points, triangulation, idx, outputs>>

\* print_voronoi_edges, line 121: File::create truncates the file; line 123
\* starts the iteration over the Voronoi edges.
PrintCreate ==
    /\ pc \in {"returned", "printed", "io_error"}
    /\ runs < MaxRuns
    /\ runs' = runs + 1
    /\ file' = <<>>
    /\ pending' = undirected_voronoi_edges(triangulation.V, triangulation.F)
    /\ pc' = "printing"
    /\ UNCHANGED <<conditions, calls, points, projected_points, triangulation, idx, outputs>>

\* One iteration of the loop, lines 123-152.
VisitEdge ==
    /\ pc = "printing"
    /\ pending # <<>>
    /\ file' = file \o VoronoiLines(triangulation.V, triangulation.F, Head(pending))
    /\ pending' = Tail(pending)
    /\ UNCHANGED <<conditions, calls, points, projected_points, triangulation, idx, pc, runs, outputs>>

\* Line 154: the loop is over, Ok(()).
PrintOk ==
    /\ pc = "printing"
    /\ pending = <<>>
    /\ pc' = "printed"
    /\ outputs' = Append(outputs, file)
    /\ UNCHANGED <<conditions, calls, points, projected_points, triangulation, idx, file, pending, runs>>

\* The ? of line 121: File::create fails, the call ends with Err and the file
\* is as it was.
PrintCreateFails ==
    /\ pc \in {"returned", "printed", "io_error"}
    /\ runs < MaxRuns
    /\ runs' = runs + 1
    /\ pc' = "io_error"
    /\ UNCHANGED <<conditions, calls, points, projected_points, triangulation, idx, file, pending, outputs>>

\* The ? of line 151: a write fails and the call ends with Err.
PrintIoError ==
    /\ pc = "printing"
    /\ pc' = "io_error"
    /\ pending' = <<>>
    /\ UNCHANGED <<conditions, calls, points, projected_points, triangulation, idx, file, runs, outputs>>

Next ==
    \/ Project
    \/ InsertPoint
    \/ StitchPole
    \/ PrintCreate
    \/ PrintCreateFails
    \/ VisitEdge
    \/ PrintOk
    \/ PrintIoError

Spec == Init /\ [][Next]_vars

(***************************************************************************)
(* Well-formedness of the model's triangulation.                           *)
(***************************************************************************)
TypeOK ==
    /\ pc \in {"start", "inserting", "stitch", "returned", "panicked",
               "printing", "printed", "io_error"}
    /\ \A h \in 1..Len(triangulation.V) : is_finite_point(triangulation.V[h])
    /\ \A f \in triangulation.F : Cardinality(f) = 3 /\ f \subseteq 1..Len(triangulation.V)
    /\ \A f \in triangulation.F :
         LET t == FaceVertices(triangulation.V, f)
         IN  Orient(triangulation.V[t[1]], triangulation.V[t[2]], triangulation.V[t[3]]) = 1
    /\ \A e \in EdgesOf(triangulation.F) : Cardinality(IncidentFaces(triangulation.F, e)) \in {1, 2}

(***************************************************************************)
(* Vocabulary of the properties.                                           *)
(***************************************************************************)
Range(q) == {q[i] : i \in DOMAIN q}

Handed == pc \in {"returned", "printing", "printed", "io_error"}

HullEdges(F) == {e \in EdgesOf(F) : Cardinality(IncidentFaces(F, e)) = 1}

InteriorEdges(F) == {e \in EdgesOf(F) : Cardinality(IncidentFaces(F, e)) = 2}

LinesOf(e) == {k \in DOMAIN file : file[k].edge = e}

Tolerance == <<1, 1000000000>>

\* |a - b| <= 1e-9
Within(a, b) ==
    LET df == FSub(a, b)
    IN  is_finite(df) /\ Abs(df[1]) <= df[2] \div Tolerance[2]

OnUnitSphere(p) ==
    FAdd(FAdd(FMul(p[1], p[1]), FMul(p[2], p[2])), FMul(p[3], p[3])) = One

IsPole(p) == FAdd(One, p[2]) = Zero

Dot(a, b) == FAdd(FAdd(FMul(a[1], b[1]), FMul(a[2], b[2])), FMul(a[3], b[3]))

\* The corners of face f on the sphere, as print_voronoi_edges obtains them.
Corners(V, f) == {inverse_stereographic_projection(V[h]) : h \in f}

Square == {<<Zero, Zero>>, <<One, Zero>>, <<Zero, One>>, <<One, One>>}

(***************************************************************************)
(* C1.  For every point p of the unit sphere other than the projection     *)
(* pole, inverse_stereographic_projection(stereographic_projection(p)) is  *)
(* p: each of the three coordinates is within 1e-9 of p's.                 *)
(***************************************************************************)
C1_RoundTrip ==
    \A i \in DOMAIN projected_points :
        LET p == points[i]
            q == inverse_stereographic_projection(projected_points[i])
        IN  OnUnitSphere(p) /\ ~IsPole(p)
            => Within(q[1], p[1]) /\ Within(q[2], p[2]) /\ Within(q[3], p[3])

(***************************************************************************)
(* C2, as claimed.  Once print_voronoi_edges has returned Ok, every hull   *)
(* edge of the triangulation has exactly one emitted (Ray) edge, and the   *)
(* vertices (0,0), (1,0), (0,1), (1,1) give two faces, one edge for the    *)
(* interior edge and four for the hull edges.                              *)
(***************************************************************************)
C2_RayPerHullEdge ==
    pc = "printed" =>
        /\ \A e \in HullEdges(triangulation.F) : Cardinality(LinesOf(e)) = 1
        /\ Range(triangulation.V) = Square =>
              /\ Cardinality(triangulation.F) = 2
              /\ Cardinality(InteriorEdges(triangulation.F)) = 1
              /\ Len(file) = 5

(***************************************************************************)
(* C2, amended.  Once print_voronoi_edges has returned Ok, no hull edge    *)
(* has an emitted edge (edges that go to infinity are skipped), and the    *)
(* vertices (0,0), (1,0), (0,1), (1,1) give two faces, four hull edges,    *)
(* one emitted edge for the one interior edge and nothing else.            *)
(***************************************************************************)
C2_HullEdgesSkipped ==
    pc = "printed" =>
        /\ \A e \in HullEdges(triangulation.F) : LinesOf(e) = {}
        /\ Range(triangulation.V) = Square =>
              /\ Cardinality(triangulation.F) = 2
              /\ Cardinality(HullEdges(triangulation.F)) = 4
              /\ Cardinality(InteriorEdges(triangulation.F)) = 1
              /\ Len(file) = 1
              /\ file[1].edge \in InteriorEdges(triangulation.F)

C2_Witness ==
    /\ pc = "printed"
    /\ Range(triangulation.V) = Square
    /\ Len(file) = 1

(***************************************************************************)
(* C3.  create_spherical_voronoi never applies the forward projection to   *)
(* the projection pole (a point with 1 + y = 0).                           *)
(***************************************************************************)
C3_PoleNeverProjected ==
    \A i \in DOMAIN projected_points : ~IsPole(points[i])

(***************************************************************************)
(* C4.  A point whose projected coordinates are not finite has only its    *)
(* own insertion rejected: the run does not abort, the vertices of the     *)
(* points inserted before it stay in the triangulation, and the            *)
(* triangulation is returned.                                              *)
(***************************************************************************)
C4_RejectionKeepsTriangulation ==
    \A i \in DOMAIN projected_points :
        ~is_finite_point(projected_points[i]) =>
            /\ pc # "panicked"
            /\ \A j \in 1..(i - 1) :
                 (idx > i /\ is_finite_point(projected_points[j]))
                 => projected_points[j] \in Range(triangulation.V)

(***************************************************************************)
(* C5, as claimed.  If all the points project onto a single line of the    *)
(* plane, create_spherical_voronoi does not fail, the triangulation it     *)
(* returns has no face and print_voronoi_edges emits no edge.              *)
(***************************************************************************)
ProjectedOnALine ==
    /\ pc # "start"
    /\ \A i \in DOMAIN projected_points : is_finite_point(projected_points[i])
    /\ AllCollinear(projected_points)

ProjectedOnALineThroughPole ==
    /\ pc # "start"
    /\ \A i \in DOMAIN projected_points : is_finite_point(projected_points[i])
    /\ AllCollinear(Append(projected_points, <<Zero, Zero>>))

C6_EmptyCircumcircles ==
    pc = "returned" =>
        /\ <<Zero, Zero>> \in Range(triangulation.V)
        /\ \A f \in triangulation.F :
             \A h \in (1..Len(triangulation.V)) \ f :
                LET t == FaceVertices(triangulation.V, f)
                IN  InCircleSign(triangulation.V[t[1]], triangulation.V[t[2]],
                                 triangulation.V[t[3]], triangulation.V[h]) <= 0

NoFourCocircular ==
    \A f \in SUBSET (1..Len(triangulation.V)) :
        (Cardinality(f) = 3 /\ ~AllCollinear([i \in 1..3 |-> triangulation.V[FaceVertices(triangulation.V, f)[i]]]))
        => \A h \in (1..Len(triangulation.V)) \ f :
             LET t == FaceVertices(triangulation.V, f)
             IN  InCircleSign(triangulation.V[t[1]], triangulation.V[t[2]],
                              triangulation.V[t[3]], triangulation.V[h]) # 0

\* The pole was inserted last, inside the triangle of the three other vertices.
C6_Witness ==
    /\ pc = "returned"
    /\ Len(triangulation.V) = 4
    /\ triangulation.V[4] = <<Zero, Zero>>
    /\ Cardinality(triangulation.F) = 3
    /\ \A f \in triangulation.F : 4 \in f
    /\ NoFourCocircular

(***************************************************************************)
(* C7.  Every geometric routine guards its division: no division by zero   *)
(* in stereographic_projection, calculate_spherical_circumcenter or        *)
(* normalize_to_sphere yields a NaN or an infinity that flows into the     *)
(* triangulation or the emitted edges.                                     *)
(***************************************************************************)
IsFiniteQ(q) == is_finite(q.num)

C7_DivisionsGuarded ==
    /\ \A i \in DOMAIN projected_points : is_finite_point(projected_points[i])
    /\ \A i \in DOMAIN points :
          \A k \in 1..3 : IsFiniteQ(normalize_to_sphere(points[i])[k])
    /\ \A k \in DOMAIN file :
          \A c \in 1..3 : IsFiniteQ(file[k].from[c]) /\ IsFiniteQ(file[k].to[c])

(***************************************************************************)
(* C8.  Two runs of print_voronoi_edges on the same triangulation write    *)
(* the same set of Voronoi edges, the second output replacing the first    *)
(* (as many lines, not more), and no step taken once the triangulation has *)
(* been returned changes its vertices or faces.                            *)
(***************************************************************************)
C8_SameOutput ==
    /\ \A i, j \in DOMAIN outputs :
          /\ Range(outputs[i]) = Range(outputs[j])
          /\ Len(outputs[i]) = Len(outputs[j])
    /\ (pc = "printed" => file = outputs[Len(outputs)])

C8_Idempotent ==
    /\ []C8_SameOutput
    /\ [][Handed => triangulation' = triangulation]_vars

C8_Witness ==
    /\ pc = "printed"
    /\ Len(outputs) = 2
    /\ Len(outputs[1]) >= 2

(***************************************************************************)
(* C9.  For every face, the direction calculate_spherical_circumcenter     *)
(* returns for the face's three inverse-projected corners has a positive   *)
(* dot product with the centroid of those corners.                         *)
(***************************************************************************)
Centroid(V, f) ==
    LET t == FaceVertices(V, f)
        c == [i \in 1..3 |-> inverse_stereographic_projection(V[t[i]])]
        third == <<1, 3>>
    IN  [k \in 1..3 |-> FMul(FAdd(FAdd(c[1][k], c[2][k]), c[3][k]), third)]

C9_CircumcenterInCentroidHemisphere ==
    Handed =>
        \A f \in triangulation.F :
            LET cc == FaceCircumcenter(triangulation.V, f)
                n == [k \in 1..3 |-> cc[k].num]
            IN  FLt(Zero, Dot(n, Centroid(triangulation.V, f)))

(***************************************************************************)
(* C10.  print_voronoi_edges visits every undirected edge exactly once:    *)
(* while it runs, an interior edge still to be visited has no line and an  *)
(* interior edge already visited has exactly one; every line belongs to an *)
(* interior edge; and when the call returns Ok the number of lines is the  *)
(* number of interior edges and the two endpoints of every line are the    *)
(* circumcentres of its edge's two incident faces, one each (a unit vector *)
(* equidistant from the face's three corners, in Unreal coordinates).      *)
(***************************************************************************)
\* The point of the sphere whose Unreal coordinates are u: (x, z, -y) * 1000.
FromUnreal(u) ==
    <<FDiv(u[1].num, Thousand), FNeg(FDiv(u[3].num, Thousand)), FDiv(u[2].num, Thousand)>>

IsCircumcenterOf(u, V, f) ==
    LET n == FromUnreal(u)
        rad == u[1].rad
    IN  /\ u[2].rad = rad /\ u[3].rad = rad
        /\ is_finite(rad) /\ FLt(Zero, rad)
        /\ Dot(n, n) = rad
        /\ \A a, b \in Corners(V, f) : Dot(n, a) = Dot(n, b)

C10_OneSegmentPerInteriorEdge ==
    pc \in {"printing", "printed"} =>
        /\ \A i, j \in DOMAIN pending : pending[i] = pending[j] => i = j
        /\ \A e \in InteriorEdges(triangulation.F) :
              Cardinality(LinesOf(e)) = IF e \in Range(pending) THEN 0 ELSE 1
        /\ \A k \in DOMAIN file : file[k].edge \in InteriorEdges(triangulation.F)
        /\ pc = "printed" =>
              /\ Len(file) = Cardinality(InteriorEdges(triangulation.F))
              /\ \A k \in DOMAIN file :
                    \E f, g \in IncidentFaces(triangulation.F, file[k].edge) :
                       /\ f # g
                       /\ IsCircumcenterOf(file[k].from, triangulation.V, f)
                       /\ IsCircumcenterOf(file[k].to, triangulation.V, g)

C10_Witness ==
    /\ pc = "printed"
    /\ Len(file) = 3
    /\ Cardinality(InteriorEdges(triangulation.F)) = 3

(***************************************************************************)
(* Weather: src/src/weather.rs.  A WeatherCondition is a record of five    *)
(* f64 fields.  The random draws of generate_weather_conditions are        *)
(* choices among sample conditions inside the ranges it draws from.        *)
(***************************************************************************)
MaxSamples == 1

MaxWeatherCalls == 4

\* a % m of f64 (the remainder has the sign of the dividend), m finite and > 0.
FMod(a, m) ==
    IF ~is_finite(a) THEN NaN
    ELSE LET q == FDiv(a, m)
             t == Sign(q[1]) * (Abs(q[1]) \div q[2])
         IN  FSub(a, FMul(m, <<t, 1>>))

\* f64::clamp(x, lo, hi); a NaN stays a NaN.
clamp(x, lo, hi) == IF FLt(x, lo) THEN lo ELSE IF FLt(hi, x) THEN hi ELSE x

\* pub fn calculate_precipitation(temperature, humidity) -> f64
calculate_precipitation(temperature, humidity) ==
    IF FLt(Zero, temperature) /\ FLt(R(50, 1), humidity)
    THEN FMul(FMul(FDiv(humidity, R(100, 1)), FDiv(temperature, R(30, 1))), R(10, 1))
    ELSE Zero

\* ClampCondition without the clamps of temperature and wind_speed.
ClampCondition_Partial(c) ==
    [temperature    |-> c.temperature,
     humidity       |-> clamp(c.humidity, Zero, R(100, 1)),
     wind_speed     |-> c.wind_speed,
     wind_direction |-> c.wind_direction,
     precipitation  |-> clamp(c.precipitation, Zero, R(100, 1))]

\* The clamps of lines 77-80 and 107-110.
ClampCondition(c) ==
    [temperature    |-> clamp(c.temperature, R(-30, 1), R(50, 1)),
     humidity       |-> clamp(c.humidity, Zero, R(100, 1)),
     wind_speed     |-> clamp(c.wind_speed, Zero, R(30, 1)),
     wind_direction |-> c.wind_direction,
     precipitation  |-> clamp(c.precipitation, Zero, R(100, 1))]

\* The body of the loop of simulate_weather for one condition, lines 70-80.
SimulateCondition(c, time_step) ==
    LET ts == <<time_step, 1>>
        temperature == FAdd(c.temperature,
                            FSub(FMod(FMul(ts, R(1, 10)), R(5, 1)), R(5, 2)))
        humidity == FAdd(c.humidity,
                         FSub(FMod(FMul(ts, R(1, 20)), R(10, 1)), R(5, 1)))
        wind_speed == FAdd(c.wind_speed,
                           FSub(FMod(FMul(ts, R(1, 50)), One), R(1, 2)))
        wind_direction == FMod(FAdd(c.wind_direction,
                                    FMod(FMul(ts, R(5, 1)), R(360, 1))), R(360, 1))
    IN  ClampCondition(
          [temperature    |-> temperature,
           humidity       |-> humidity,
           wind_speed     |-> wind_speed,
           wind_direction |-> wind_direction,
           precipitation  |-> calculate_precipitation(temperature, humidity)])

\* pub fn simulate_weather(conditions, time_step)
simulate_weather(cs, time_step) ==
    [i \in DOMAIN cs |-> SimulateCondition(cs[i], time_step)]

\* One condition under global_weather_event: the match arm of the event type,
\* lines 86-103, then the clamps.
EventCondition(c, event_type) ==
    ClampCondition(
      IF event_type = "storm"
      THEN LET humidity == FAdd(c.humidity, R(20, 1))
           IN  [temperature    |-> c.temperature,
                humidity       |-> humidity,
                wind_speed     |-> FAdd(c.wind_speed, R(10, 1)),
                wind_direction |-> FMod(FAdd(c.wind_direction, R(45, 1)), R(360, 1)),
                precipitation  |-> calculate_precipitation(c.temperature, humidity)]
      ELSE IF event_type = "heatwave"
      THEN LET temperature == FAdd(c.temperature, R(10, 1))
               humidity == FSub(c.humidity, R(10, 1))
           IN  [temperature    |-> temperature,
                humidity       |-> humidity,
                wind_speed     |-> c.wind_speed,
                wind_direction |-> c.wind_direction,
                precipitation  |-> calculate_precipitation(temperature, humidity)]
      ELSE c)

\* pub fn global_weather_event(conditions, event_type)
global_weather_event(cs, event_type) ==
    [i \in DOMAIN cs |-> EventCondition(cs[i], event_type)]

\* Draws of the generator: (temperature, humidity, wind_speed, wind_direction).
SampleDraws ==
    { <<R(-30, 1), R(5, 1), Zero, Zero>>,
      <<R(49, 1), R(95, 1), R(29, 1), R(350, 1)>>,
      <<R(20, 1), R(60, 1), R(15, 1), R(180, 1)>>,
      <<R(1, 2), R(101, 2), R(1, 4), R(719, 2)>> }

\* One iteration of the loop of generate_weather_conditions, lines 40-52.
NewCondition(d) ==
    [temperature    |-> d[1],
     humidity       |-> d[2],
     wind_speed     |-> d[3],
     wind_direction |-> d[4],
     precipitation  |-> calculate_precipitation(d[1], d[2])]

TimeSteps == {0, 40, 160}

EventTypes == {"storm", "heatwave", "fog"}

geo == <<points, projected_points, triangulation, idx, pc, file, pending,
         runs, outputs>>

WeatherInit ==
    /\ points = <<>>
    /\ projected_points = <<>>
    /\ triangulation = NewTriangulation
    /\ idx = 1
    /\ pc = "start"
    /\ file = <<>>
    /\ pending = <<>>
    /\ runs = 0
    /\ outputs = <<>>
    /\ conditions = <<>>
    /\ calls = 0

\* generate_weather_conditions(seed, samples)
GenerateWeather ==
    /\ calls = 0
    /\ \E draws \in SeqsUpTo(SampleDraws, MaxSamples) :
          conditions' = [i \in DOMAIN draws |-> NewCondition(draws[i])]
    /\ calls' = 1
    /\ UNCHANGED geo

SimulateWeather ==
    /\ calls >= 1
    /\ calls < MaxWeatherCalls
    /\ \E time_step \in TimeSteps :
          conditions' = simulate_weather(conditions, time_step)
    /\ calls' = calls + 1
    /\ UNCHANGED geo

GlobalWeatherEvent ==
    /\ calls >= 1
    /\ calls < MaxWeatherCalls
    /\ \E event_type \in EventTypes :
          conditions' = global_weather_event(conditions, event_type)
    /\ calls' = calls + 1
    /\ UNCHANGED geo

WeatherNext ==
    \/ GenerateWeather
    \/ SimulateWeather
    \/ GlobalWeatherEvent

WeatherSpec == WeatherInit /\ [][WeatherNext]_vars

(***************************************************************************)
(* C11.  In every state reachable from generate_weather_conditions by      *)
(* simulate_weather and global_weather_event calls, every condition has    *)
(* temperature in [-30, 50], humidity in [0, 100], wind_speed in [0, 30],  *)
(* precipitation in [0, 100] and wind_direction in [0, 360).               *)
(***************************************************************************)
FLe(a, b) == a = b \/ FLt(a, b)

C11_ConditionsInRange ==
    \A i \in DOMAIN conditions :
        LET c == conditions[i]
        IN  /\ FLe(R(-30, 1), c.temperature) /\ FLe(c.temperature, R(50, 1))
            /\ FLe(Zero, c.humidity) /\ FLe(c.humidity, R(100, 1))
            /\ FLe(Zero, c.wind_speed) /\ FLe(c.wind_speed, R(30, 1))
            /\ FLe(Zero, c.precipitation) /\ FLe(c.precipitation, R(100, 1))
            /\ FLe(Zero, c.wind_direction) /\ FLt(c.wind_direction, R(360, 1))

\* Two calls later a condition sits on the upper clamps of temperature,
\* humidity and wind speed.
C11_Witness ==
    /\ calls >= 3
    /\ \E i \in DOMAIN conditions :
          /\ conditions[i].temperature = R(50, 1)
          /\ conditions[i].humidity = R(100, 1)
          /\ conditions[i].wind_speed = R(30, 1)

(***************************************************************************)
(* C12.  After generate_weather_conditions and after every simulate_weather*)
(* or global_weather_event call, each condition's stored precipitation is  *)
(* calculate_precipitation of its stored temperature and humidity.         *)
(***************************************************************************)
C12_PrecipitationConsistent ==
    \A i \in DOMAIN conditions :
        conditions[i].precipitation =
            calculate_precipitation(conditions[i].temperature, conditions[i].humidity)

====
